---- MODULE Spec2Model ----
(***************************************************************************)
(* A model of gym_loop/agents/pytorch_rainbow_dqn.py: the PytorchRainbowDqn *)
(* agent (act, memorize, update, update_model, metrics,                    *)
(* _compute_dqn_loss, _target_update).                                     *)
(*                                                                         *)
(* Numbers.  Tensor entries and hyper-parameters are exact rationals       *)
(* <<n, d>> in lowest terms with d > 0, so that floor, ceil, clamp and the *)
(* interpolation weights are computed exactly as written in the source.    *)
(* torch.log is taken to base 2 on probabilities 1/2^k (a positive         *)
(* rescaling of the natural logarithm).                                    *)
(*                                                                         *)
(* Networks.  The policy networks are external: what dqn(.), distribution  *)
(* (.), the optimizer step and reset_noise() produce are inputs of the     *)
(* actions, drawn from small sets.                                         *)
(***************************************************************************)
EXTENDS Integers, Sequences, FiniteSets, TLC

VARIABLES cfg, env, agent, lastOp, arg, ret, locals

vars == <<cfg, env, agent, lastOp, arg, ret, locals>>

\* Python's None.
None == "None"

(***************************************************************************)
(* Exact arithmetic on rationals.                                          *)
(***************************************************************************)
Abs(x) == IF x < 0 THEN -x ELSE x

RECURSIVE GCD(_, _)
GCD(a, b) == IF b = 0 THEN a ELSE GCD(b, a % b)

\* n/d in lowest terms, d # 0.
Rat(n, d) ==
    LET s == IF d < 0 THEN -1 ELSE 1
        g == GCD(Abs(n), Abs(d))
    IN <<(s * n) \div g, (s * d) \div g>>

R(n) == <<n, 1>>
RAdd(x, y) == Rat(x[1] * y[2] + y[1] * x[2], x[2] * y[2])
RSub(x, y) == Rat(x[1] * y[2] - y[1] * x[2], x[2] * y[2])
RMul(x, y) == Rat(x[1] * y[1], x[2] * y[2])
RDiv(x, y) == Rat(x[1] * y[2], x[2] * y[1])
RNeg(x) == <<-x[1], x[2]>>
RLe(x, y) == x[1] * y[2] <= y[1] * x[2]
RLt(x, y) == x[1] * y[2] < y[1] * x[2]
RMax(x, y) == IF RLe(x, y) THEN y ELSE x
RMin(x, y) == IF RLe(x, y) THEN x ELSE y

RECURSIVE RPow(_, _)
RPow(x, n) == IF n = 0 THEN R(1) ELSE RMul(x, RPow(x, n - 1))

\* Tensor.clamp(min, max), .floor() and .ceil() on one entry.
clamp(x, lo, hi) == RMin(RMax(x, lo), hi)
floor(x) == x[1] \div x[2]
ceil(x) == -((-x[1]) \div x[2])

\* torch.log on a probability 1/2^k, to base 2.
RECURSIVE log(_)
log(p) == IF p = R(1) THEN R(0) ELSE RSub(log(RMul(p, R(2))), R(1))

\* Tensor.sum over a vector.
RECURSIVE RSum(_)
RSum(v) == IF v = <<>> THEN R(0) ELSE RAdd(Head(v), RSum(Tail(v)))

\* Tensor.argmax: the index (from 1) of the first maximal entry.
argmax(v) ==
    CHOOSE i \in 1..Len(v) :
        /\ \A k \in 1..Len(v) : RLe(v[k], v[i])
        /\ \A k \in 1..(i - 1) : RLt(v[k], v[i])

(***************************************************************************)
(* __init__: the atom support.                                             *)
(***************************************************************************)
\* torch.linspace(v_min, v_max, atom_size)
support(c) ==
    [j \in 1..c.atom_size |->
        RAdd(c.v_min, RDiv(RMul(R(j - 1), RSub(c.v_max, c.v_min)),
                           R(c.atom_size - 1)))]

(***************************************************************************)
(* _compute_dqn_loss.  samples: [acts, rews, done], one entry per sample   *)
(* of the batch.  net: what the three network calls return on the batch:   *)
(* q_next[i][a] (online q-values at next_state), target_dist[i][a][j]      *)
(* (target distribution at next_state) and dist[i][a][j] (online           *)
(* distribution at state).                                                 *)
(***************************************************************************)
\* Tensor.index_add_(0, index, source) on a flat buffer; indices from 0.
RECURSIVE index_add(_, _, _)
index_add(buf, index, source) ==
    IF index = <<>> THEN buf
    ELSE index_add([buf EXCEPT ![Head(index) + 1] = RAdd(@, Head(source))],
                   Tail(index), Tail(source))

\* The gamma the call works with (lines 161-162).
effective_gamma(c, gamma) == IF gamma = None THEN c.gamma ELSE gamma

\* A tensor held by value: a vector, and a matrix of B rows.
vector(f) == SubSeq(f, 1, Len(f))
matrix(f) == vector([i \in 1..Len(f) |-> vector(f[i])])

\* .view(-1) of a matrix with A columns, and .view(B, A) of a flat buffer.
flatten(m, A) == vector([f \in 1..(Len(m) * A) |->
                            m[((f - 1) \div A) + 1][((f - 1) % A) + 1]])
unflatten(v, B, A) == [i \in 1..B |-> [j \in 1..A |-> v[(i - 1) * A + j]]]

\* Lines 175-177: the target distribution of the online network's greedy
\* next action (double DQN).
select_next_dist(c, net) ==
    LET next_action == [i \in 1..c.batch_size |-> argmax(net.q_next[i])]
    IN matrix([i \in 1..c.batch_size |-> net.target_dist[i][next_action[i]]])

\* Lines 179-181: the fractional grid position of every target atom.
grid_position(c, samples, gamma) ==
    LET delta_z == RDiv(RSub(c.v_max, c.v_min), R(c.atom_size - 1))
        z == vector(support(c))
        t_z == matrix([i \in 1..c.batch_size |-> [j \in 1..c.atom_size |->
                   clamp(RAdd(samples.rews[i],
                              RMul(RMul(RSub(R(1), samples.done[i]), gamma),
                                   z[j])),
                         c.v_min, c.v_max)]])
    IN matrix([i \in 1..c.batch_size |-> [j \in 1..c.atom_size |->
                  RDiv(RSub(t_z[i][j], c.v_min), delta_z)]])

\* Lines 195-201: the two index_add_ calls into the flat zero buffer.
project(c, next_dist, b, l, u) ==
    LET B == c.batch_size
        A == c.atom_size
        offset == [i \in 1..B |-> [j \in 1..A |-> (i - 1) * A]]
        zeros == [f \in 1..(B * A) |-> R(0)]
        lower == index_add(zeros,
                     flatten([i \in 1..B |-> [j \in 1..A |->
                                 l[i][j] + offset[i][j]]], A),
                     flatten([i \in 1..B |-> [j \in 1..A |->
                                 RMul(next_dist[i][j],
                                      RSub(R(u[i][j]), b[i][j]))]], A))
    IN unflatten(index_add(lower,
                     flatten([i \in 1..B |-> [j \in 1..A |->
                                 u[i][j] + offset[i][j]]], A),
                     flatten([i \in 1..B |-> [j \in 1..A |->
                                 RMul(next_dist[i][j],
                                      RSub(b[i][j], R(l[i][j])))]], A)),
                 B, A)

\* Lines 171-201: the locals of the no_grad block.
projection(c, samples, gamma, net) ==
    LET next_dist == select_next_dist(c, net)
        b == grid_position(c, samples, effective_gamma(c, gamma))
        l == matrix([i \in 1..c.batch_size |-> [j \in 1..c.atom_size |->
                        floor(b[i][j])]])
        u == matrix([i \in 1..c.batch_size |-> [j \in 1..c.atom_size |->
                        ceil(b[i][j])]])
    IN [next_dist |-> next_dist, b |-> b, l |-> l, u |-> u,
        proj_dist |-> matrix(project(c, next_dist, b, l, u))]

\* The loss with the sign of line 205 dropped: (proj_dist * log_p).sum(1).
_compute_dqn_loss_unnegated(c, samples, gamma, net) ==
    LET proj_dist == projection(c, samples, gamma, net).proj_dist
        log_p == [i \in 1..c.batch_size |-> [j \in 1..c.atom_size |->
                     log(net.dist[i][samples.acts[i]][j])]]
    IN vector([i \in 1..c.batch_size |->
                  RSum([j \in 1..c.atom_size |->
                           RMul(proj_dist[i][j], log_p[i][j])])])

\* Lines 203-207: the elementwise cross-entropy loss, one entry per sample.
_compute_dqn_loss(c, samples, gamma, net) ==
    LET proj_dist == projection(c, samples, gamma, net).proj_dist
        log_p == [i \in 1..c.batch_size |-> [j \in 1..c.atom_size |->
                     log(net.dist[i][samples.acts[i]][j])]]
    IN vector([i \in 1..c.batch_size |->
                  RNeg(RSum([j \in 1..c.atom_size |->
                               RMul(proj_dist[i][j], log_p[i][j])]))])

(***************************************************************************)
(* The replay buffers (replay_buffers/per_buffer.py and replay_buffer.py). *)
(* A transition is [act, rew, done]; observations play no part, the        *)
(* networks' outputs being inputs.                                         *)
(***************************************************************************)
\* len(buffer)
size(buf) == Len(buf.items)

\* Write x at position ptr (from 0) of a circular array of capacity cap.
put(seq, ptr, x) == IF ptr < Len(seq) THEN [seq EXCEPT ![ptr + 1] = x]
                    ELSE Append(seq, x)

\* The aggregated n-step transition of a window: the discounted return
\* truncated at the first terminal step, the action of the first step, and
\* done if any step was terminal.
RECURSIVE n_step_return(_, _)
n_step_return(window, gamma) ==
    IF window = <<>> THEN R(0)
    ELSE IF Head(window).done = R(1) THEN Head(window).rew
    ELSE RAdd(Head(window).rew, RMul(gamma, n_step_return(Tail(window), gamma)))

aggregate(window, gamma) ==
    [act |-> window[1].act,
     rew |-> n_step_return(window, gamma),
     done |-> IF \E k \in 1..Len(window) : window[k].done = R(1)
              THEN R(1) ELSE R(0)]

\* ReplayBuffer.store: [buf |-> the buffer afterwards, out |-> the aggregated
\* transition, or <<>> while the window is not full].
n_store(buf, c, tr) ==
    LET w0 == Append(buf.window, tr)
        w == IF Len(w0) > c.n_step THEN Tail(w0) ELSE w0
    IN IF Len(w) < c.n_step
       THEN [buf |-> [buf EXCEPT !.window = w], out |-> <<>>]
       ELSE LET agg == aggregate(w, c.gamma)
            IN [buf |-> [window |-> w,
                         items |-> put(buf.items, buf.ptr, agg),
                         ptr |-> (buf.ptr + 1) % c.memory_size],
                out |-> agg]

\* PrioritizedReplayBuffer.store: a new transition gets the maximal priority.
per_store(buf, c, tr) ==
    [buf EXCEPT !.items = put(buf.items, buf.ptr, tr),
                !.prios = put(buf.prios, buf.ptr, buf.max_priority),
                !.ptr = (buf.ptr + 1) % c.memory_size]

\* sample_batch / sample_batch_from_idxs: the batch at the given indices.
batch_at(buf, indices) ==
    [acts |-> [i \in 1..Len(indices) |-> buf.items[indices[i] + 1].act],
     rews |-> [i \in 1..Len(indices) |-> buf.items[indices[i] + 1].rew],
     done |-> [i \in 1..Len(indices) |-> buf.items[indices[i] + 1].done]]

\* PrioritizedReplayBuffer.update_priorities
RECURSIVE update_priorities(_, _, _)
update_priorities(buf, indices, priorities) ==
    IF indices = <<>> THEN buf
    ELSE update_priorities(
             [buf EXCEPT !.prios[Head(indices) + 1] = Head(priorities),
                         !.max_priority = RMax(@, Head(priorities))],
             Tail(indices), Tail(priorities))

(***************************************************************************)
(* The agent.                                                              *)
(***************************************************************************)
\* __init__ (lines 17-73); params0: the policy's initial parameters.
Construct(c, params0) ==
    [memory |-> [items |-> <<>>, prios |-> <<>>, ptr |-> 0,
                 max_priority |-> R(1)],
     memory_n |-> [window |-> <<>>, items |-> <<>>, ptr |-> 0],
     beta |-> c.buffer_beta_min,
     dqn |-> params0,
     dqn_target |-> params0,
     grad |-> [p \in 1..Len(params0) |-> None],
     dqn_noise |-> 0,
     target_noise |-> 0,
     loss_per_batch |-> R(0),
     episode_step |-> 0,
     trace |-> <<>>]

\* What the handler did, in order: the calls it made to its collaborators
\* and the assignments of update, each with the values it was handed.
traced(a, call, args) ==
    [a EXCEPT !.trace = Append(@, [call |-> call, args |-> args])]

\* act (lines 75-78): q_values is the online network's answer.
act(a, q_values) == argmax(q_values) - 1

\* memorize (lines 80-91)
memorize(a, c, tr) ==
    LET first_in_seq == n_store(a.memory_n, c, tr)
    IN IF first_in_seq.out # <<>>
       THEN [a EXCEPT !.memory_n = first_in_seq.buf,
                      !.memory = per_store(a.memory, c, first_in_seq.out)]
       ELSE [a EXCEPT !.memory_n = first_in_seq.buf]

\* The soft update with the two weights exchanged.
_target_update_swapped(a, c) ==
    traced([a EXCEPT !.dqn_target =
                [p \in 1..Len(a.dqn_target) |->
                    RAdd(RMul(a.dqn_target[p], c.tau),
                         RMul(a.dqn[p], RSub(R(1), c.tau)))]],
           "_target_update", <<>>)

\* _target_update (lines 209-211)
_target_update(a, c) ==
    traced([a EXCEPT !.dqn_target =
                [p \in 1..Len(a.dqn_target) |->
                    RAdd(RMul(a.dqn_target[p], RSub(R(1), c.tau)),
                         RMul(a.dqn[p], c.tau))]],
           "_target_update", <<>>)

\* The NaN scan of lines 126-128: one warning, naming the parameter, per
\* parameter with a NaN gradient.
RECURSIVE nan_scan(_, _, _)
nan_scan(a, grad, p) ==
    IF p > Len(grad) THEN a
    ELSE nan_scan(IF grad[p] = "nan"
                  THEN traced(a, "logging.warn", <<a.dqn[p]>>) ELSE a,
                  grad, p + 1)

\* update_model giving up at the first NaN gradient: neither the step nor
\* the priorities are written.
update_model_abort(a, c, in) ==
    LET samples == batch_at(a.memory, in.indices)
        a1 == traced(a, "sample_batch", <<a.beta>>)
        loss_1 == _compute_dqn_loss(c, samples, None, in.net1)
        samples_n == batch_at(a.memory_n, in.indices)
        gamma == RPow(c.gamma, c.n_step)
        n_loss == _compute_dqn_loss(c, samples_n, gamma, in.net_n)
        elementwise_loss == [i \in 1..c.batch_size |-> RAdd(loss_1[i], n_loss[i])]
        loss == RDiv(RSum([i \in 1..c.batch_size |->
                              RMul(elementwise_loss[i], in.weights[i])]),
                     R(c.batch_size))
        a2 == traced([a1 EXCEPT !.loss_per_batch = RAdd(@, loss),
                                !.episode_step = @ + 1,
                                !.grad = in.grad],
                     "backward", <<loss>>)
        a3 == nan_scan(a2, in.grad, 1)
        a4 == traced([a3 EXCEPT !.dqn = in.stepped], "optimizer.step", in.stepped)
        new_priorities == vector([i \in 1..c.batch_size |->
                              RAdd(elementwise_loss[i], c.prior_eps)])
        a5 == traced([a4 EXCEPT !.memory =
                         update_priorities(@, in.indices, new_priorities)],
                     "update_priorities", new_priorities)
    IN IF \E p \in 1..Len(in.grad) : in.grad[p] = "nan"
       THEN [self |-> a3, ret |-> loss]
       ELSE [self |-> a5, ret |-> loss]

\* update_model (lines 107-137).  in: indices and weights (what sample_batch
\* drew), net1 and net_n (the networks' outputs on the two batches), grad
\* (per parameter, "ok" or "nan": what backward and clipping left) and
\* stepped (the online parameters after the optimizer's step).
update_model(a, c, in) ==
    LET samples == batch_at(a.memory, in.indices)
        a1 == traced(a, "sample_batch", <<a.beta>>)
        loss_1 == _compute_dqn_loss(c, samples, None, in.net1)
        samples_n == batch_at(a.memory_n, in.indices)
        gamma == RPow(c.gamma, c.n_step)
        n_loss == _compute_dqn_loss(c, samples_n, gamma, in.net_n)
        elementwise_loss == [i \in 1..c.batch_size |-> RAdd(loss_1[i], n_loss[i])]
        loss == RDiv(RSum([i \in 1..c.batch_size |->
                              RMul(elementwise_loss[i], in.weights[i])]),
                     R(c.batch_size))
        a2 == traced([a1 EXCEPT !.loss_per_batch = RAdd(@, loss),
                                !.episode_step = @ + 1,
                                !.grad = in.grad],
                     "backward", <<loss>>)
        a3 == nan_scan(a2, in.grad, 1)
        a4 == traced([a3 EXCEPT !.dqn = in.stepped], "optimizer.step", in.stepped)
        new_priorities == vector([i \in 1..c.batch_size |->
                              RAdd(elementwise_loss[i], c.prior_eps)])
        a5 == traced([a4 EXCEPT !.memory =
                         update_priorities(@, in.indices, new_priorities)],
                     "update_priorities", new_priorities)
    IN [self |-> a5, ret |-> loss]

\* reset_noise() of the online and of the target network: a fresh draw,
\* named by its number.
dqn_reset_noise(a) ==
    traced([a EXCEPT !.dqn_noise = @ + 1], "dqn.reset_noise", <<>>)
dqn_target_reset_noise(a) ==
    traced([a EXCEPT !.target_noise = @ + 1], "dqn_target.reset_noise", <<>>)

\* The beta assignment with min(...) where the source has max(...).
anneal_beta_min(a, c) ==
    traced([a EXCEPT !.beta =
               RMin(c.buffer_beta_min,
                    RSub(a.beta, RMul(RSub(c.buffer_beta_max, c.buffer_beta_min),
                                      c.buffer_beta_decay)))],
           "beta", <<>>)

\* The conventional schedule: beta climbs by the step and is capped at
\* buffer_beta_max.
anneal_beta_upward(a, c) ==
    traced([a EXCEPT !.beta =
               RMin(c.buffer_beta_max,
                    RAdd(a.beta, RMul(RSub(c.buffer_beta_max, c.buffer_beta_min),
                                      c.buffer_beta_decay)))],
           "beta", <<>>)

\* The beta assignment of lines 97-102.
anneal_beta(a, c) ==
    traced([a EXCEPT !.beta =
               RMax(c.buffer_beta_min,
                    RSub(a.beta, RMul(RSub(c.buffer_beta_max, c.buffer_beta_min),
                                      c.buffer_beta_decay)))],
           "beta", <<>>)

\* update with only update_model under the gate: the beta assignment, the
\* soft update and the noise resets run on every call.
update_ungated_tail(a, c, in) ==
    dqn_target_reset_noise(
        dqn_reset_noise(
            _target_update(
                anneal_beta(IF size(a.memory) >= c.batch_size
                            THEN update_model(a, c, in).self ELSE a, c), c)))

\* update with the soft update moved in front of the gradient step.
update_reordered(a, c, in) ==
    IF size(a.memory) >= c.batch_size
    THEN dqn_target_reset_noise(
             dqn_reset_noise(
                 anneal_beta(
                     update_model(_target_update(a, c), c, in).self, c)))
    ELSE a

\* update (lines 93-105)
update(a, c, in) ==
    IF size(a.memory) >= c.batch_size
    THEN dqn_target_reset_noise(
             dqn_reset_noise(
                 _target_update(
                     anneal_beta(update_model(a, c, in).self, c), c)))
    ELSE a

\* metrics (lines 139-155): [self, ret]; ret.returned is FALSE when the call
\* falls off the end of the function, which hands the caller None.
metrics(a, episode_num) ==
    IF episode_num % 10 # 0
    THEN LET loss_per_batch_mean ==
                 IF a.episode_step # 0
                 THEN RDiv(a.loss_per_batch, R(a.episode_step))
                 ELSE R(0)
             grads == [p \in {q \in 1..Len(a.dqn) : a.grad[q] # None} |->
                          [mean |-> a.dqn[p], std |-> R(0)]]
         IN [self |-> [a EXCEPT !.loss_per_batch = R(0), !.episode_step = 0],
             ret |-> [returned |-> TRUE,
                      value |-> [loss_per_batch |-> loss_per_batch_mean,
                                 grads |-> grads]]]
    ELSE [self |-> a, ret |-> [returned |-> FALSE, value |-> None]]

(***************************************************************************)
(* Bounds and input sets.                                                  *)
(***************************************************************************)
\* Gradient steps taken in one run.
MaxUpdates == 2

Half == Rat(1, 2)

\* get_default_parameters (lines 215-232); action_dim is action_space.n.
Default ==
    [memory_size |-> 2000, batch_size |-> 32, action_dim |-> 2,
     gamma |-> Rat(99, 100), tau |-> Rat(1, 100),
     buffer_beta_max |-> Rat(9, 10), buffer_beta_min |-> Rat(1, 10),
     buffer_beta_decay |-> Rat(1, 2000), prior_eps |-> Rat(1, 1000000),
     atom_size |-> 51, n_step |-> 3, v_min |-> R(-600), v_max |-> R(300)]

\* The defaults cut to a size that can be explored: a store of one
\* transition, batches of one, a window of two, three atoms on [0, 2].
Base ==
    [Default EXCEPT !.memory_size = 1, !.batch_size = 1, !.n_step = 2,
                    !.gamma = Half, !.tau = Half,
                    !.buffer_beta_decay = Rat(1, 20),
                    !.prior_eps = Rat(1, 1000),
                    !.atom_size = 3, !.v_min = R(0), !.v_max = R(2)]

\* The transitions an environment hands to memorize.
Plain == {[act |-> 1, rew |-> R(1), done |-> R(0)]}
Rich == Plain \cup {[act |-> 2, rew |-> R(0), done |-> R(1)]}

\* The runs <<configuration, environment>>: the base configuration, batches
\* of two from a store of two, and the beta schedule with a decay that is
\* zero and negative, with beta_min = beta_max and with beta_min > beta_max.
Runs ==
    {<<Base, Rich>>,
     <<[Base EXCEPT !.memory_size = 2, !.batch_size = 2, !.n_step = 1], Plain>>,
     <<[Base EXCEPT !.buffer_beta_decay = R(0)], Plain>>,
     <<[Base EXCEPT !.buffer_beta_decay = R(-2)], Plain>>,
     <<[Base EXCEPT !.buffer_beta_max = Rat(1, 10)], Plain>>,
     <<[Base EXCEPT !.buffer_beta_min = Rat(9, 10),
                    !.buffer_beta_max = Rat(1, 10)], Plain>>}

\* Distributions over A atoms.
OneHot(k, A) == [j \in 1..A |-> IF j = k THEN R(1) ELSE R(0)]
Split(k, A) == [j \in 1..A |-> IF j \in {k, k + 1} THEN Half ELSE R(0)]
\* 1/2 on atom k and the rest shared by the others (A - 1 a power of two).
Peaked(k, A) ==
    [j \in 1..A |-> IF j = k THEN Half ELSE RDiv(Half, R(A - 1))]

TargetDists(A) ==
    {OneHot(k, A) : k \in 1..A} \cup {Split(k, A) : k \in 1..(A - 1)}

\* One sample's share of the networks' outputs: the online network prefers
\* next action a (or is tied, and the first action is taken), the target
\* network answers d for the action taken, and the online distribution of
\* action x peaks on atom o or next to it.
NetRow(c, a, tie, d, o) ==
    [q_next |-> [x \in 1..c.action_dim |-> IF x = a \/ tie THEN R(1) ELSE R(0)],
     target_dist |-> [x \in 1..c.action_dim |->
                         IF x = (IF tie THEN 1 ELSE a) THEN d
                         ELSE Peaked(1, c.atom_size)],
     dist |-> [x \in 1..c.action_dim |->
                  Peaked(IF x = 1 THEN o ELSE (o % c.atom_size) + 1, c.atom_size)]]

\* The networks' outputs on a batch, from one row per sample.
Net(rows) ==
    [q_next |-> [i \in 1..Len(rows) |-> rows[i].q_next],
     target_dist |-> [i \in 1..Len(rows) |-> rows[i].target_dist],
     dist |-> [i \in 1..Len(rows) |-> rows[i].dist]]

\* Initial parameters of the policy: two parameter tensors of one entry.
InitParams == {<<R(1), R(0)>>}

\* What backward and the optimizer's step leave: per-parameter gradient
\* state and the stepped online parameters.
StepOutcomes ==
    <<[grad |-> <<"ok", "ok">>, stepped |-> <<R(0), R(1)>>],
      [grad |-> <<"nan", "ok">>, stepped |-> <<R(2), R(0)>>]>>

\* Importance-sampling weights of a batch: in (0, 1], the largest being 1.
Weights(B) == {[i \in 1..B |-> IF i = 1 THEN R(1) ELSE Half]}

\* The networks' outputs on the 1-step and on the n-step batch.
NetPairs(c) ==
    [k \in 1..2 |->
        [net1 |-> Net([i \in 1..c.batch_size |->
                          NetRow(c, 2, FALSE, OneHot(k, c.atom_size), 1)]),
         net_n |-> Net([i \in 1..c.batch_size |->
                          NetRow(c, 1, FALSE, Split(k, c.atom_size), 1)])]]

\* The episode numbers handed to metrics.
EpisodeNums == {1, 10}

\* The inputs of one update(): none are read while the store is warming up;
\* afterwards any indices into the store, with the k-th outputs of the
\* networks and the k-th outcome of the step.
NoInput == [indices |-> <<>>]
UpdateInputs(a, c) ==
    IF size(a.memory) < c.batch_size THEN {NoInput}
    ELSE {[indices |-> ix, weights |-> w,
           net1 |-> NetPairs(c)[k].net1, net_n |-> NetPairs(c)[k].net_n,
           grad |-> StepOutcomes[k].grad, stepped |-> StepOutcomes[k].stepped] :
            ix \in [1..c.batch_size -> 0..(size(a.memory) - 1)],
            w \in Weights(c.batch_size),
            k \in 1..2}

(***************************************************************************)
(* The agent driven by its environment loop.                               *)
(***************************************************************************)
\* A handler starts with an empty trace.
entry(a) == [a EXCEPT !.trace = <<>>]

Init ==
    /\ \E run \in Runs : cfg = run[1] /\ env = run[2]
    /\ \E p \in InitParams : agent = Construct(cfg, p)
    /\ lastOp = None
    /\ arg = None
    /\ ret = None
    /\ locals = None

Act ==
    /\ \E q \in {<<R(1), R(1)>>} :
          /\ arg' = q
          /\ ret' = act(agent, q)
    /\ agent' = entry(agent)
    /\ lastOp' = "act"
    /\ UNCHANGED <<cfg, env, locals>>

Memorize ==
    /\ \E tr \in env : agent' = memorize(entry(agent), cfg, tr)
    /\ lastOp' = "memorize"
    /\ arg' = None
    /\ ret' = None
    /\ UNCHANGED <<cfg, env, locals>>

Update ==
    /\ agent.dqn_noise < MaxUpdates
    /\ \E in \in UpdateInputs(agent, cfg) :
          agent' = update(entry(agent), cfg, in)
    /\ lastOp' = "update"
    /\ arg' = None
    /\ ret' = None
    /\ UNCHANGED <<cfg, env, locals>>

Metrics ==
    /\ \E episode_num \in EpisodeNums :
          /\ agent' = metrics(entry(agent), episode_num).self
          /\ ret' = metrics(entry(agent), episode_num).ret
          /\ arg' = episode_num
    /\ lastOp' = "metrics"
    /\ UNCHANGED <<cfg, env, locals>>

Next == Act \/ Memorize \/ Update \/ Metrics

Spec == Init /\ [][Next]_vars

(***************************************************************************)
(* The pure functions on their own: _compute_dqn_loss on one batch and     *)
(* _target_update on one pair of parameter sets.                           *)
(***************************************************************************)
\* Grids (v_min, v_max, atom_size), discounts and window lengths of the
\* loss engine's runs; batches of two on the first grid.  tau is the
\* default's.
LossConfigs ==
    {[Base EXCEPT !.v_min = g[1], !.v_max = g[2], !.atom_size = g[3],
                  !.gamma = ga, !.n_step = n, !.tau = Default.tau] :
        g \in {<<R(0), R(2), 3>>, <<R(-1), R(1), 5>>},
        ga \in {R(1), Half}, n \in {1, 2}}
    \cup {[Base EXCEPT !.gamma = R(1), !.batch_size = 2, !.tau = Default.tau]}

\* The soft update's runs.
TargetConfigs ==
    {[Base EXCEPT !.tau = t] : t \in {R(0), Rat(1, 4), Half, R(1)}}
ParamValues == {R(-1), R(0), Half, R(3)}

\* One sample of a batch with its share of the networks' outputs.
LossSamples(c) ==
    IF c.batch_size = 1
    THEN {[act |-> a, rew |-> r, done |-> d, row |-> NetRow(c, a, tie, t, 1)] :
            a \in 1..c.action_dim, tie \in BOOLEAN,
            r \in {R(0), Half, R(1)}, d \in {R(0), R(1)},
            t \in TargetDists(c.atom_size)}
    ELSE {[act |-> a, rew |-> r, done |-> R(0), row |-> NetRow(c, a, FALSE, t, a)] :
            a \in 1..c.action_dim, r \in {Half, R(1)},
            t \in {OneHot(2, c.atom_size), Split(2, c.atom_size)}}

InitFn ==
    /\ \/ /\ cfg \in LossConfigs
          /\ \E p \in InitParams : agent = Construct(cfg, p)
       \/ /\ cfg \in TargetConfigs
          /\ \E p \in [1..2 -> ParamValues], q \in [1..2 -> ParamValues] :
                agent = [Construct(cfg, p) EXCEPT !.dqn_target = q]
    /\ env = Plain
    /\ lastOp = None
    /\ arg = None
    /\ ret = None
    /\ locals = None

ComputeLoss ==
    /\ lastOp = None
    /\ cfg \in LossConfigs
    /\ \E ss \in [1..cfg.batch_size -> LossSamples(cfg)],
          gamma \in {None, RPow(cfg.gamma, cfg.n_step)} :
          LET samples == [acts |-> [i \in 1..cfg.batch_size |-> ss[i].act],
                          rews |-> [i \in 1..cfg.batch_size |-> ss[i].rew],
                          done |-> [i \in 1..cfg.batch_size |-> ss[i].done]]
              net == Net([i \in 1..cfg.batch_size |-> ss[i].row])
          IN /\ arg' = [samples |-> samples, gamma |-> gamma, net |-> net]
             /\ ret' = _compute_dqn_loss(cfg, samples, gamma, net)
             /\ locals' = projection(cfg, samples, gamma, net)
    /\ lastOp' = "_compute_dqn_loss"
    /\ UNCHANGED <<cfg, env, agent>>

TargetUpdate ==
    /\ lastOp = None
    /\ cfg \in TargetConfigs
    /\ arg' = [dqn |-> agent.dqn, dqn_target |-> agent.dqn_target]
    /\ agent' = _target_update(agent, cfg)
    /\ lastOp' = "_target_update"
    /\ ret' = None
    /\ UNCHANGED <<cfg, env, locals>>

NextFn == ComputeLoss \/ TargetUpdate

SpecFn == InitFn /\ [][NextFn]_vars

(***************************************************************************)
(* Properties of the agent under its environment loop (Spec).              *)
(***************************************************************************)
\* The calls of a trace, in order, and the same without the warnings.
calls(tr) == [k \in 1..Len(tr) |-> tr[k].call]
steps(tr) == SelectSeq(calls(tr), LAMBDA x : x # "logging.warn")

\* The last handler was an update() that found a full batch in the store.
Gated == lastOp = "update" /\ size(agent.memory) >= cfg.batch_size

\* The parameters whose gradient the last backward pass left as NaN.
NaNParams == {p \in 1..Len(agent.grad) : agent.grad[p] = "nan"}

\* C1: an update() on a store holding fewer than batch_size transitions is a
\* no-op: no collaborator is called and beta, the online and the target
\* parameters, the stored priorities, loss_per_batch, episode_step and both
\* networks' noise are what they were before the call.
WarmUpGateNoOp ==
    [][(lastOp' = "update" /\ size(agent.memory) < cfg.batch_size)
          => /\ agent'.trace = <<>>
             /\ agent'.beta = agent.beta
             /\ agent'.dqn = agent.dqn
             /\ agent'.dqn_target = agent.dqn_target
             /\ agent'.memory = agent.memory
             /\ agent'.memory_n = agent.memory_n
             /\ agent'.loss_per_batch = agent.loss_per_batch
             /\ agent'.episode_step = agent.episode_step
             /\ agent'.dqn_noise = agent.dqn_noise
             /\ agent'.target_noise = agent.target_noise]_vars

\* update() was called on a store that holds a transition, but not a batch.
WarmUpGateReached ==
    /\ lastOp = "update"
    /\ 0 < size(agent.memory)
    /\ size(agent.memory) < cfg.batch_size
    /\ agent.trace = <<>>

\* C4, as stated: whenever buffer_beta_min <= buffer_beta_max, beta lies in
\* [buffer_beta_min, buffer_beta_max] after any sequence of act, memorize and
\* update calls.
BetaWithinBoundsAnyDecay ==
    RLe(cfg.buffer_beta_min, cfg.buffer_beta_max)
        => /\ RLe(cfg.buffer_beta_min, agent.beta)
           /\ RLe(agent.beta, cfg.buffer_beta_max)

\* C4, amended: whenever buffer_beta_min <= buffer_beta_max and
\* buffer_beta_decay >= 0, beta lies in [buffer_beta_min, buffer_beta_max]
\* after any sequence of act, memorize and update calls.
BetaWithinBounds ==
    (/\ RLe(cfg.buffer_beta_min, cfg.buffer_beta_max)
     /\ RLe(R(0), cfg.buffer_beta_decay))
        => /\ RLe(cfg.buffer_beta_min, agent.beta)
           /\ RLe(agent.beta, cfg.buffer_beta_max)

\* A gradient step has assigned beta under a proper interval and a positive
\* decay, and beta is inside the interval.
BetaAssignedWithinBounds ==
    /\ Gated
    /\ RLt(cfg.buffer_beta_min, cfg.buffer_beta_max)
    /\ RLt(R(0), cfg.buffer_beta_decay)
    /\ \E k \in 1..Len(agent.trace) : agent.trace[k].call = "beta"
    /\ RLe(cfg.buffer_beta_min, agent.beta)
    /\ RLe(agent.beta, cfg.buffer_beta_max)

\* C5: metrics(episode_num) returns a snapshot exactly when episode_num is
\* divisible by 10, and then leaves loss_per_batch and episode_step at zero;
\* on any other episode_num it returns nothing and leaves both as they were.
MetricsEveryTenth ==
    [][lastOp' = "metrics"
          => IF arg' % 10 = 0
             THEN /\ ret'.returned
                  /\ agent'.loss_per_batch = R(0)
                  /\ agent'.episode_step = 0
             ELSE /\ ~ret'.returned
                  /\ agent'.loss_per_batch = agent.loss_per_batch
                  /\ agent'.episode_step = agent.episode_step]_vars

\* C6: with prior_eps > 0, every priority update_model hands to
\* update_priorities, and so every priority in the store, is strictly
\* positive.
PrioritiesPositive ==
    RLt(R(0), cfg.prior_eps)
        => /\ \A k \in 1..Len(agent.memory.prios) :
                 RLt(R(0), agent.memory.prios[k])
           /\ \A k \in 1..Len(agent.trace) :
                 agent.trace[k].call = "update_priorities"
                     => \A i \in 1..Len(agent.trace[k].args) :
                            RLt(R(0), agent.trace[k].args[i])

\* A gradient step wrote a priority that a non-zero loss raised above
\* prior_eps.
PriorityWritten ==
    /\ Gated
    /\ \E k \in 1..Len(agent.trace) :
          /\ agent.trace[k].call = "update_priorities"
          /\ RLt(cfg.prior_eps, agent.trace[k].args[1])
          /\ agent.trace[k].args[1] \in
                 {agent.memory.prios[i] : i \in 1..Len(agent.memory.prios)}

\* C7: an update() that passes the gate runs, once each and in this order,
\* update_model (sampling, backward pass, optimizer step, priority write),
\* the beta assignment, the soft target update, the online network's noise
\* reset and the target network's noise reset.
UpdateOrder ==
    Gated
        => steps(agent.trace) =
               <<"sample_batch", "backward", "optimizer.step",
                 "update_priorities", "beta", "_target_update",
                 "dqn.reset_noise", "dqn_target.reset_noise">>

\* A second gradient step has run to its end.
SecondUpdateDone ==
    /\ Gated
    /\ agent.dqn_noise = 2
    /\ agent.target_noise = 2
    /\ Len(steps(agent.trace)) = 8

\* C8: a NaN gradient does not stop update_model: one warning is logged per
\* parameter with a NaN gradient, then the optimizer's step is applied, then
\* the priorities are written, and the call returns to update(), which runs
\* to its last step.
NaNGradientsNonFatal ==
    (Gated /\ NaNParams # {})
        => LET tr == agent.trace
               warned == {k \in 1..Len(tr) : tr[k].call = "logging.warn"}
           IN /\ Cardinality(warned) = Cardinality(NaNParams)
              /\ \E s, w \in 1..Len(tr) :
                    /\ tr[s].call = "optimizer.step"
                    /\ agent.dqn = tr[s].args
                    /\ \A k \in warned : k < s
                    /\ s < w
                    /\ tr[w].call = "update_priorities"
                    /\ tr[w].args[Len(tr[w].args)] \in
                           {agent.memory.prios[i] :
                               i \in 1..Len(agent.memory.prios)}
              /\ tr[Len(tr)].call = "dqn_target.reset_noise"

\* A gradient step whose backward pass left a NaN gradient was warned about
\* and applied.
NaNStepApplied ==
    /\ Gated
    /\ NaNParams # {}
    /\ \E k \in 1..Len(agent.trace) : agent.trace[k].call = "logging.warn"
    /\ \E s \in 1..Len(agent.trace) :
          /\ agent.trace[s].call = "optimizer.step"
          /\ agent.dqn = agent.trace[s].args

\* C10: with buffer_beta_min <= buffer_beta_max and buffer_beta_decay >= 0,
\* beta equals buffer_beta_min in every state, and every sample_batch call
\* is handed buffer_beta_min.
BetaNeverAnneals ==
    (/\ RLe(cfg.buffer_beta_min, cfg.buffer_beta_max)
     /\ RLe(R(0), cfg.buffer_beta_decay))
        => /\ agent.beta = cfg.buffer_beta_min
           /\ \A k \in 1..Len(agent.trace) :
                 agent.trace[k].call = "sample_batch"
                     => agent.trace[k].args = <<cfg.buffer_beta_min>>

\* Two gradient steps under a proper interval and a positive decay, the
\* second one sampling with buffer_beta_min.
SampledAtBetaMinTwice ==
    /\ Gated
    /\ agent.dqn_noise = 2
    /\ RLt(cfg.buffer_beta_min, cfg.buffer_beta_max)
    /\ RLt(R(0), cfg.buffer_beta_decay)
    /\ agent.trace[1].call = "sample_batch"
    /\ agent.trace[1].args = <<cfg.buffer_beta_min>>
    /\ agent.beta = cfg.buffer_beta_min

(***************************************************************************)
(* Properties of the pure functions (SpecFn).                              *)
(***************************************************************************)
\* C2: the projected distribution of every sample sums to 1, as the next
\* distribution it was projected from does.
ProjectionConservesMass ==
    lastOp = "_compute_dqn_loss"
        => \A i \in 1..cfg.batch_size :
               /\ RSum(locals.next_dist[i]) = R(1)
               /\ RSum(locals.proj_dist[i]) = R(1)

\* C3: an atom whose grid position b is an exact integer (l = u) leaves its
\* whole mass at that index of the projected distribution; and with three
\* atoms on [0, 2], reward 1, done 0, gamma 1 and the next distribution
\* [0, 1, 0], the projected distribution is [0, 0, 1].
ExactIntegerLanding ==
    lastOp = "_compute_dqn_loss"
        => /\ \A i \in 1..cfg.batch_size : \A j \in 1..cfg.atom_size :
                 locals.l[i][j] = locals.u[i][j]
                     => RLe(locals.next_dist[i][j],
                            locals.proj_dist[i][locals.l[i][j] + 1])
           /\ (/\ cfg.atom_size = 3 /\ cfg.v_min = R(0) /\ cfg.v_max = R(2)
               /\ cfg.batch_size = 1
               /\ arg.samples.rews[1] = R(1)
               /\ arg.samples.done[1] = R(0)
               /\ effective_gamma(cfg, arg.gamma) = R(1)
               /\ locals.next_dist[1] = <<R(0), R(1), R(0)>>)
                  => locals.proj_dist[1] = <<R(0), R(0), R(1)>>

\* C9: _target_update leaves the target parameters as they were when tau is
\* 0, makes them the online parameters when tau is 1, and never changes the
\* online parameters.
SoftUpdateEndpoints ==
    lastOp = "_target_update"
        => /\ cfg.tau = R(0) => agent.dqn_target = arg.dqn_target
           /\ cfg.tau = R(1) => agent.dqn_target = arg.dqn
           /\ agent.dqn = arg.dqn

\* A soft update with tau = 1 on parameters that differed.
TargetCopiedAtTauOne ==
    /\ lastOp = "_target_update"
    /\ cfg.tau = R(1)
    /\ arg.dqn # arg.dqn_target
    /\ agent.dqn_target = arg.dqn

====
